---------------------------- MODULE Spec2Model ----------------------------
(***************************************************************************)
(* A model of DB::dynamic_bitset (DynamicBitset.h): a vector of full bytes *)
(* (mData) plus one incomplete byte (mIncompleteByte) that buffers the     *)
(* bits that do not fill a byte yet, the (byte index, bit index) iterators *)
(* over it, and the byte-wise extraction of trivially copyable values.     *)
(*                                                                         *)
(* A byte is its unsigned char value 0..255; a bit is a BOOLEAN.  The      *)
(* container is the record [mData, mIncompleteByte]; every member function *)
(* is an operator on that record, computed as the code computes it, and    *)
(* the actions apply these operators to the state.                         *)
(***************************************************************************)
EXTENDS Naturals, Sequences, FiniteSets

(***************************************************************************)
(* Bounds of the model.                                                    *)
(***************************************************************************)
\* Spec: single bits are pushed while the container holds fewer bits.
MaxBits == 9
\* SpecTyped: single bits are pushed while the container holds fewer bits,
\* so that a byte or a value is pushed at every tail count 0..7.
MaxPrefix == 7
\* SpecTyped: bytes and values are pushed while the container holds at most
\* this many full bytes.
MaxTypedStart == 0
\* a begin()/end() loop is followed for at most this many increments
MaxSteps == 48
MaxCalls == 3        \* calls replayed on a cleared and on a new container

(***************************************************************************)
(* Program constants.                                                      *)
(***************************************************************************)
sNumOfBitsInByte == 8

\* the values of an unsigned char
ByteValues == 0..255

Pow2(n) == 2^n

BitValue(b) == IF b THEN 1 ELSE 0

(***************************************************************************)
(* class byte                                                              *)
(***************************************************************************)
\* byte::set: a variant that counts the index from the least-significant bit
byte_set_lsbfirst(data, index, b) ==
    LET shiftAmount == index
        old         == (data \div Pow2(shiftAmount)) % 2
        cleared     == data - old * Pow2(shiftAmount)
    IN  (cleared + BitValue(b) * Pow2(shiftAmount)) % 256

\* byte::set: a variant that adds the new bit without clearing the old one
byte_set_noclear(data, index, b) ==
    LET shiftAmount == sNumOfBitsInByte - index - 1
    IN  (data + BitValue(b) * Pow2(shiftAmount)) % 256

\* byte::set: mData = (mData & ~(1 << shiftAmount)) + (bit << shiftAmount),
\* stored back into an unsigned char
byte_set(data, index, b) ==
    LET shiftAmount == sNumOfBitsInByte - index - 1
        old         == (data \div Pow2(shiftAmount)) % 2
        cleared     == data - old * Pow2(shiftAmount)
    IN  (cleared + BitValue(b) * Pow2(shiftAmount)) % 256

\* byte::get: (mData & (1 << shiftAmount)) >> shiftAmount, converted to bool
byte_get(data, index) ==
    LET shiftAmount == sNumOfBitsInByte - index - 1
    IN  ((data \div Pow2(shiftAmount)) % 2) = 1

(***************************************************************************)
(* class dynamic_bitset: the container as a value                          *)
(***************************************************************************)
\* a default-constructed container: mData{}, mIncompleteByte{ mByte{}, 0 }
EmptyBitset ==
    [mData |-> << >>, mIncompleteByte |-> [mByte |-> 0, mNumOfBits |-> 0]]

\* IncompleteByte::isFull
isFull(ib) == ib.mNumOfBits = sNumOfBitsInByte

\* dynamic_bitset::isThereAnIncompleteByte
isThereAnIncompleteByte(c) == c.mIncompleteByte.mNumOfBits > 0

\* the assertion of get / getBitRef: a variant that accepts the first unused
\* bit of the incomplete byte
InRange_inclusive(c, byteIndex, bitIndex) ==
    \/ byteIndex < Len(c.mData)
    \/ (byteIndex = Len(c.mData) /\ bitIndex <= c.mIncompleteByte.mNumOfBits)

\* the assertion of get / getBitRef
InRange(c, byteIndex, bitIndex) ==
    \/ byteIndex < Len(c.mData)
    \/ (byteIndex = Len(c.mData) /\ bitIndex < c.mIncompleteByte.mNumOfBits)

\* dynamic_bitset::get(byteIndex, bitIndex): the byte is mData[byteIndex]
\* when byteIndex < mData.size() and the incomplete byte otherwise
\* (mData is 0-based in the code and 1-based here)
get(c, byteIndex, bitIndex) ==
    LET byte == IF byteIndex < Len(c.mData)
                THEN c.mData[byteIndex + 1]
                ELSE c.mIncompleteByte.mByte
    IN  byte_get(byte, bitIndex)

\* push_back(bit): a variant that never moves the full tail into mData
push_back_bit_nocollapse(c, b) ==
    [c EXCEPT !.mIncompleteByte =
        [mByte      |-> byte_set(c.mIncompleteByte.mByte,
                                 c.mIncompleteByte.mNumOfBits % 8, b),
         mNumOfBits |-> c.mIncompleteByte.mNumOfBits + 1]]

\* push_back(bit): a variant that moves a full incomplete byte into mData
\* when the next bit is pushed
push_back_bit_lazy(c, b) ==
    LET start == IF isFull(c.mIncompleteByte)
                 THEN [mData           |-> Append(c.mData, c.mIncompleteByte.mByte),
                       mIncompleteByte |-> [c.mIncompleteByte EXCEPT !.mNumOfBits = 0]]
                 ELSE c
    IN  [start EXCEPT !.mIncompleteByte =
            [mByte      |-> byte_set(start.mIncompleteByte.mByte,
                                     start.mIncompleteByte.mNumOfBits, b),
             mNumOfBits |-> start.mIncompleteByte.mNumOfBits + 1]]

\* dynamic_bitset::push_back(bit)
push_back_bit(c, b) ==
    LET written == [mByte      |-> byte_set(c.mIncompleteByte.mByte,
                                            c.mIncompleteByte.mNumOfBits, b),
                    mNumOfBits |-> c.mIncompleteByte.mNumOfBits + 1]
    IN  IF isFull(written)
        THEN [mData           |-> Append(c.mData, written.mByte),
              mIncompleteByte |-> [written EXCEPT !.mNumOfBits = 0]]
        ELSE [c EXCEPT !.mIncompleteByte = written]

\* TRUE of every container: used in the loops below so that the container a
\* round starts from is a value before the round is taken
Evaluated(c) == c.mIncompleteByte.mNumOfBits >= 0

\* the loop of push_back(byte), from bit index i on
RECURSIVE push_back_byte_from(_, _, _)
push_back_byte_from(c, byte, i) ==
    IF Evaluated(c) /\ i < sNumOfBitsInByte
    THEN push_back_byte_from(push_back_bit(c, byte_get(byte, i)), byte, i + 1)
    ELSE c

\* the loop of push_back(byte) taken from the least-significant bit up
RECURSIVE push_back_byte_lsbfirst_from(_, _, _)
push_back_byte_lsbfirst_from(c, byte, i) ==
    IF Evaluated(c) /\ i < sNumOfBitsInByte
    THEN push_back_byte_lsbfirst_from(
             push_back_bit(c, byte_get(byte, sNumOfBitsInByte - i - 1)),
             byte, i + 1)
    ELSE c

\* push_back(byte): a variant that appends the least-significant bit first
push_back_byte_lsbfirst(c, byte) == push_back_byte_lsbfirst_from(c, byte, 0)

\* dynamic_bitset::push_back(byte)
push_back_byte(c, byte) == push_back_byte_from(c, byte, 0)

\* the loop of push_back(value), from byte i of the value's bytes on
\* (data is 0-based in the code and 1-based here)
RECURSIVE push_back_value_from(_, _, _)
push_back_value_from(c, data, i) ==
    IF Evaluated(c) /\ i < Len(data)
    THEN push_back_value_from(push_back_byte(c, data[i + 1]), data, i + 1)
    ELSE c

\* dynamic_bitset::push_back(const TriviablyCopyableType&), on the bytes of
\* the value
push_back_value(c, data) == push_back_value_from(c, data, 0)

\* pop_back: a variant that shrinks mData without moving its last byte into
\* the incomplete byte
pop_back_nomove(c) ==
    IF isThereAnIncompleteByte(c)
    THEN [c EXCEPT !.mIncompleteByte.mNumOfBits = @ - 1]
    ELSE [mData           |-> SubSeq(c.mData, 1, Len(c.mData) - 1),
          mIncompleteByte |-> [mByte      |-> c.mIncompleteByte.mByte,
                               mNumOfBits |-> sNumOfBitsInByte - 1]]

\* pop_back: a variant that keeps all 8 bits of the byte it moves to the tail
pop_back_keep8(c) ==
    IF isThereAnIncompleteByte(c)
    THEN [c EXCEPT !.mIncompleteByte.mNumOfBits = @ - 1]
    ELSE [mData           |-> SubSeq(c.mData, 1, Len(c.mData) - 1),
          mIncompleteByte |-> [mByte      |-> c.mData[Len(c.mData)],
                               mNumOfBits |-> sNumOfBitsInByte]]

\* pop_back: a variant that drops the last bit of the byte it moves into the
\* tail by shifting the byte right
pop_back_shifted(c) ==
    IF isThereAnIncompleteByte(c)
    THEN [c EXCEPT !.mIncompleteByte.mNumOfBits = @ - 1]
    ELSE [mData |-> SubSeq(c.mData, 1, Len(c.mData) - 1),
          mIncompleteByte |-> [mByte |-> c.mData[Len(c.mData)] \div 2,
                               mNumOfBits |-> sNumOfBitsInByte - 1]]

\* dynamic_bitset::pop_back, called on a container that is not empty
pop_back(c) ==
    IF isThereAnIncompleteByte(c)
    THEN [c EXCEPT !.mIncompleteByte.mNumOfBits = @ - 1]
    ELSE [mData           |-> SubSeq(c.mData, 1, Len(c.mData) - 1),
          mIncompleteByte |-> [mByte      |-> c.mData[Len(c.mData)],
                               mNumOfBits |-> sNumOfBitsInByte - 1]]

\* dynamic_bitset::clear: the incomplete byte keeps its stored bits
\* variant: pop_back() without its assertion
pop_back_assert_off(c) == TRUE

\* assert(!mData.empty()) of pop_back()
pop_back_assert(c) == Len(c.mData) > 0

\* variant: clear() that empties the full bytes and keeps the tail count
clear_keeptail(c) == [mData |-> << >>, mIncompleteByte |-> c.mIncompleteByte]

clear(c) ==
    [mData           |-> << >>,
     mIncompleteByte |-> [c.mIncompleteByte EXCEPT !.mNumOfBits = 0]]

\* the number of bits the container holds: 8 per full byte plus the tail's
Length(c) == sNumOfBitsInByte * Len(c.mData) + c.mIncompleteByte.mNumOfBits

(***************************************************************************)
(* IteratorBase: a position (mByteIndex, mBitIndex)                        *)
(***************************************************************************)
\* IteratorBase(byteIndex, bitIndex)
Iterator(byteIndex, bitIndex) ==
    [mByteIndex |-> byteIndex, mBitIndex |-> bitIndex]

\* IteratorBase::operator++ (prefix): if (++mBitIndex == 8) { mBitIndex = 0;
\* ++mByteIndex; }
increment(i) ==
    LET next == (i.mBitIndex + 1) % 256
    IN  IF next = 8
        THEN Iterator(i.mByteIndex + 1, 0)
        ELSE Iterator(i.mByteIndex, next)

\* operator==(IteratorBase, IteratorBase)
iterator_eq(a, b) ==
    a.mByteIndex = b.mByteIndex /\ a.mBitIndex = b.mBitIndex

\* operator!=(IteratorBase, IteratorBase)
iterator_ne(a, b) ==
    a.mByteIndex # b.mByteIndex \/ a.mBitIndex # b.mBitIndex

\* operator<: a variant that compares the byte indices only
iterator_lt_byteonly(a, b) == a.mByteIndex < b.mByteIndex

\* IteratorBase::operator<
iterator_lt(a, b) ==
    \/ a.mByteIndex < b.mByteIndex
    \/ (a.mByteIndex = b.mByteIndex /\ a.mBitIndex < b.mBitIndex)

\* dynamic_bitset::begin
begin == Iterator(0, 0)

\* end: a variant that forgets the incomplete byte
end_fullbytes(c) == Iterator(Len(c.mData), 0)

\* dynamic_bitset::end
end(c) ==
    Iterator(Len(c.mData),
             IF isThereAnIncompleteByte(c)
             THEN c.mIncompleteByte.mNumOfBits
             ELSE 0)

\* const_iterator::operator* / iterator::operator bit: the bit at a position
deref(c, i) == get(c, i.mByteIndex, i.mBitIndex)

\* dynamic_bitset::getBitRef(byteIndex, bitIndex): a bit_ref whose owner is
\* mData[byteIndex] when byteIndex < mData.size() and the incomplete byte
\* otherwise
getBitRef(c, byteIndex, bitIndex) ==
    [mOwner |-> IF byteIndex < Len(c.mData)
                THEN << "mData", byteIndex >>
                ELSE << "mIncompleteByte", 0 >>,
     mIndexAtOwner |-> bitIndex]

\* iterator::operator*
deref_ref(c, i) == getBitRef(c, i.mByteIndex, i.mBitIndex)

\* bit_ref::operator bit: read through the owner
bit_ref_get(c, ref) ==
    byte_get(IF ref.mOwner[1] = "mData"
             THEN c.mData[ref.mOwner[2] + 1]
             ELSE c.mIncompleteByte.mByte,
             ref.mIndexAtOwner)

\* variant: a bit_ref that owns a copy of the byte
bit_ref_assign_copy(c, ref, value) == c

\* bit_ref::operator=: set on the owner, which is a byte of the container
bit_ref_assign(c, ref, value) ==
    IF ref.mOwner[1] = "mData"
    THEN [c EXCEPT !.mData[ref.mOwner[2] + 1] =
                        byte_set(@, ref.mIndexAtOwner, value)]
    ELSE [c EXCEPT !.mIncompleteByte.mByte =
                        byte_set(@, ref.mIndexAtOwner, value)]

(***************************************************************************)
(* Extraction                                                              *)
(***************************************************************************)
\* the slow path of getByte: a variant that fills the byte from its
\* least-significant bit up
RECURSIVE getByte_loop_lsbfirst(_, _, _, _)
getByte_loop_lsbfirst(c, iter, returnByte, i) ==
    IF i < sNumOfBitsInByte
    THEN getByte_loop_lsbfirst(
             c, increment(iter),
             byte_set(returnByte, sNumOfBitsInByte - i - 1, deref(c, iter)),
             i + 1)
    ELSE [byte |-> returnByte, it |-> iter]

\* the slow path of getByte from bit i of the byte on: the loop
\* for (i = 0; i < 8; i++, ++iterator) returnByte.set(i, get(iterator))
RECURSIVE getByte_loop(_, _, _, _)
getByte_loop(c, iter, returnByte, i) ==
    IF i < sNumOfBitsInByte
    THEN getByte_loop(c, increment(iter),
                      byte_set(returnByte, i, deref(c, iter)), i + 1)
    ELSE [byte |-> returnByte, it |-> iter]

\* the assertion of getByte's byte-aligned path
getByte_assert(c, iter) == iter.mByteIndex < Len(c.mData)

\* dynamic_bitset::getByte(iterator&): the byte returned and the iterator as
\* the call leaves it.  The byte-aligned path returns mData[mByteIndex] and
\* leaves the iterator where it is.
getByte(c, iter) ==
    IF iter.mBitIndex = 0
    THEN [byte |-> c.mData[iter.mByteIndex + 1], it |-> iter]
    ELSE getByte_loop(c, iter, 0, 0)

\* the loop of extract(destination, amountOfBytesToExtract, it) from byte i
\* of the destination on
RECURSIVE extract_from(_, _, _, _, _)
extract_from(c, destination, amountOfBytesToExtract, iter, i) ==
    IF i < amountOfBytesToExtract
    THEN LET r == getByte(c, iter)
         IN  extract_from(c, Append(destination, r.byte),
                          amountOfBytesToExtract, r.it, i + 1)
    ELSE [destination |-> destination, it |-> iter]

\* dynamic_bitset::extract(char* destination, size_t amountOfBytesToExtract,
\* iterator& it): the bytes written and the iterator as the call leaves it
extract(c, amountOfBytesToExtract, iter) ==
    extract_from(c, << >>, amountOfBytesToExtract, iter, 0)

\* the bytes of a value of numOfBytes bytes, in memory order: what
\* reinterpret_cast<const byte*>(&value) reads (least-significant byte first)
RECURSIVE ObjectBytes(_, _)
ObjectBytes(value, numOfBytes) ==
    IF numOfBytes = 0
    THEN << >>
    ELSE << value % 256 >> \o ObjectBytes(value \div 256, numOfBytes - 1)

\* dynamic_bitset::push_back(const TriviablyCopyableType& value) for a value
\* of sizeof(value) = numOfBytes
push_back_object(c, value, numOfBytes) ==
    push_back_value(c, ObjectBytes(value, numOfBytes))

\* dynamic_bitset::extract<TriviablyCopyableType>(iterator& it) for a type of
\* numOfBytes bytes: returnValue{} is filled through reinterpret_cast<char*>,
\* so the result is given by its bytes in memory order (returnValue), with
\* the iterator as the call leaves it
extract_object(c, numOfBytes, iter) ==
    LET r == extract(c, numOfBytes, iter)
    IN  [returnValue |-> r.destination, it |-> r.it]

(***************************************************************************)
(* The state: one container, one iterator of the caller, the destination   *)
(* buffer of the caller, and the bookkeeping the properties are stated in. *)
(***************************************************************************)
VARIABLES
    mData,            \* std::vector<byte> mData
    mIncompleteByte,  \* IncompleteByte mIncompleteByte: [mByte, mNumOfBits]
    it,               \* the caller's iterator: [mByteIndex, mBitIndex]
    itLive,           \* whether the caller holds an iterator
    steps,            \* operator++ calls on it since it = begin()
    visited,          \* the bits the caller's begin()/end() loop has read
    returnValue,      \* the bytes of the value the last extract<T> call returned
    lastCall,         \* the last member function called, with its arguments
    pushed,           \* the byte or value pushed last, while it is at the back
    appended,         \* the bits pushed and not popped since the last clear
    NDEBUG,           \* whether the build defines NDEBUG (assert compiled out)
    cell              \* a byte object of the caller, outside any container

vars == << mData, mIncompleteByte, it, itLive, steps, visited, returnValue,
           lastCall, pushed, appended, NDEBUG, cell >>

\* what no member function of the container writes
fixed == << NDEBUG, cell >>

\* the container of the current state
self == [mData |-> mData, mIncompleteByte |-> mIncompleteByte]

\* the record of a call: its name, its bit argument (the bit removed, for
\* pop_back), its bytes, the position it started at (for a push, end()
\* before the push), whether it pushes back the bit the call before popped
\* and whether it pushes the other bit in the place of the one popped
Call(name, b, data, from, undoes, replaces) ==
    [name |-> name, bit |-> b, data |-> data, from |-> from, undoes |-> undoes,
     replaces |-> replaces]

NoPush == [data |-> << >>, at |-> begin]

\* the bits of a byte, most-significant first
MsbFirst(byte) ==
    [i \in 1..sNumOfBitsInByte |-> (byte \div Pow2(sNumOfBitsInByte - i)) % 2 = 1]

\* the bits of a run of bytes, each byte most-significant bit first
RECURSIVE BitsOfBytes(_)
BitsOfBytes(data) ==
    IF data = << >> THEN << >> ELSE MsbFirst(Head(data)) \o BitsOfBytes(Tail(data))

\* the position of an iterator, counted in bits from begin()
Linear(i) == sNumOfBitsInByte * i.mByteIndex + i.mBitIndex

\* the bits the container holds, read through get at every position in range
Logical(c) ==
    [p \in 1..Length(c) |->
        get(c, (p - 1) \div sNumOfBitsInByte, (p - 1) % sNumOfBitsInByte)]

\* the sample bytes and values the typed operations are called with
SampleBytes == {180, 255}

SampleObjects ==
    { [value |-> 305419896, size |-> 4],     \* uint32_t 0x12345678
      [value |-> 48879,     size |-> 2],     \* uint16_t 0xBEEF
      [value |-> 90,        size |-> 1] }    \* char 0x5A

Constructed ==
    /\ mData = EmptyBitset.mData
    /\ mIncompleteByte = EmptyBitset.mIncompleteByte
    /\ it = begin
    /\ itLive = FALSE
    /\ steps = 0
    /\ visited = << >>
    /\ returnValue = << >>
    /\ lastCall = Call("dynamic_bitset", FALSE, << >>, begin, FALSE, FALSE)
    /\ pushed = NoPush
    /\ appended = << >>

\* a build with assert enabled
Init ==
    /\ Constructed
    /\ NDEBUG = FALSE
    /\ cell = 0

\* a structural change of the container: the caller's iterator and buffer are
\* given up (iterators are not kept across push_back, pop_back and clear)
Mutate(c) ==
    /\ mData' = c.mData
    /\ mIncompleteByte' = c.mIncompleteByte
    /\ it' = begin
    /\ itLive' = FALSE
    /\ steps' = 0
    /\ visited' = << >>
    /\ returnValue' = << >>
    /\ UNCHANGED fixed

\* push_back(bit)
PushBit(b) ==
    /\ Mutate(push_back_bit(self, b))
    /\ lastCall' = Call("push_back(bit)", b, << >>, end(self),
                        lastCall.name = "pop_back" /\ lastCall.bit = b,
                        lastCall.name = "pop_back" /\ lastCall.bit # b)
    /\ pushed' = NoPush
    /\ appended' = Append(appended, b)

\* push_back(byte)
PushByte(byte) ==
    /\ Mutate(push_back_byte(self, byte))
    /\ lastCall' = Call("push_back(byte)", FALSE, << byte >>, end(self), FALSE, FALSE)
    /\ pushed' = [data |-> << byte >>, at |-> end(self)]
    /\ appended' = appended \o MsbFirst(byte)

\* push_back(value) of a trivially copyable value
PushObject(o) ==
    /\ Mutate(push_back_object(self, o.value, o.size))
    /\ lastCall' = Call("push_back(value)", FALSE,
                        ObjectBytes(o.value, o.size), end(self), FALSE, FALSE)
    /\ pushed' = [data |-> ObjectBytes(o.value, o.size), at |-> end(self)]
    /\ appended' = appended \o BitsOfBytes(ObjectBytes(o.value, o.size))

\* pop_back(), called on a container that is not empty
PopBack ==
    /\ Length(self) > 0
    /\ Mutate(pop_back(self))
    /\ lastCall' = Call("pop_back", appended[Len(appended)], << >>, end(self),
                        FALSE, FALSE)
    /\ pushed' = NoPush
    /\ appended' = SubSeq(appended, 1, Len(appended) - 1)

\* clear()
Clear ==
    /\ Mutate(clear(self))
    /\ lastCall' = Call("clear", FALSE, << >>, end(self), FALSE, FALSE)
    /\ pushed' = NoPush
    /\ appended' = << >>

\* it = begin(): the caller starts a loop
IterBegin ==
    /\ it' = begin
    /\ itLive' = TRUE
    /\ steps' = 0
    /\ visited' = << >>
    /\ returnValue' = << >>
    /\ lastCall' = Call("begin", FALSE, << >>, begin, FALSE, FALSE)
    /\ UNCHANGED << mData, mIncompleteByte, pushed, appended, fixed >>

\* one round of for (; it != end(); ++it) read(*it)
IterNext ==
    /\ itLive
    /\ lastCall.name \in {"begin", "operator++"}
    /\ iterator_ne(it, end(self))
    /\ steps < MaxSteps
    /\ visited' = Append(visited, deref(self, it))
    /\ it' = increment(it)
    /\ steps' = steps + 1
    /\ lastCall' = Call("operator++", FALSE, << >>, it, FALSE, FALSE)
    /\ UNCHANGED << mData, mIncompleteByte, itLive, returnValue, pushed,
                    appended, fixed >>

\* the positions from which numOfBytes bytes can be extracted
ExtractablePositions(c, numOfBytes) ==
    { Iterator(p \div sNumOfBitsInByte, p % sNumOfBitsInByte) :
        p \in { q \in 0..Length(c) :
                  q + sNumOfBitsInByte * numOfBytes <= Length(c) } }

\* variant: extract<T>(byteIndex, bitIndex) that runs on the iterator of the
\* caller instead of one of its own
ExtractAt_shared(numOfBytes, from) ==
    /\ from \in ExtractablePositions(self, numOfBytes)
    /\ LET r == extract_object(self, numOfBytes, from)
       IN  /\ returnValue' = r.returnValue
           /\ it' = r.it
    /\ lastCall' = Call("extract(byteIndex, bitIndex)", FALSE, << >>, from, FALSE, FALSE)
    /\ UNCHANGED << mData, mIncompleteByte, itLive, steps, visited, pushed,
                    appended, fixed >>

\* extract<T>(byteIndex, bitIndex) for a type of numOfBytes bytes: a call
\* of extract<T>(it) on a temporary iterator
ExtractAt(numOfBytes, from) ==
    /\ from \in ExtractablePositions(self, numOfBytes)
    /\ returnValue' = extract_object(self, numOfBytes, from).returnValue
    /\ lastCall' = Call("extract(byteIndex, bitIndex)", FALSE, << >>, from, FALSE, FALSE)
    /\ UNCHANGED << mData, mIncompleteByte, it, itLive, steps, visited, pushed,
                    appended, fixed >>

\* extract<T>(it) on the caller's iterator, for a type of numOfBytes bytes
ExtractIt(numOfBytes) ==
    /\ itLive
    /\ it \in ExtractablePositions(self, numOfBytes)
    /\ LET r == extract_object(self, numOfBytes, it)
       IN  /\ returnValue' = r.returnValue
           /\ it' = r.it
           /\ steps' = steps + (Linear(r.it) - Linear(it))
    /\ visited' = << >>
    /\ lastCall' = Call("extract(it)", FALSE, << >>, it, FALSE, FALSE)
    /\ UNCHANGED << mData, mIncompleteByte, itLive, pushed, appended, fixed >>

\* the positions get and getBitRef accept
Positions(c) ==
    { Iterator(p \div sNumOfBitsInByte, p % sNumOfBitsInByte) :
        p \in 0..(Length(c) - 1) }

\* an assignment through ref, a bit_ref for position from: bytes of the
\* container are written, nothing is inserted or removed and the caller
\* keeps its iterator
Assign(name, ref, from, b) ==
    LET c == bit_ref_assign(self, ref, b)
    IN  /\ mData' = c.mData
        /\ mIncompleteByte' = c.mIncompleteByte
        /\ lastCall' = Call(name, b, << >>, from, FALSE, FALSE)
        /\ pushed' = NoPush
        /\ appended' = [appended EXCEPT ![Linear(from) + 1] = b]
        /\ UNCHANGED << it, itLive, steps, visited, returnValue, fixed >>

\* getBitRef(byteIndex, bitIndex) = b
AssignAt(from, b) ==
    /\ InRange(self, from.mByteIndex, from.mBitIndex)
    /\ Assign("getBitRef(byteIndex, bitIndex) = bit",
              getBitRef(self, from.mByteIndex, from.mBitIndex), from, b)

\* *it = b inside the caller's loop
AssignIt(b) ==
    /\ itLive
    /\ lastCall.name \in {"begin", "operator++"}
    /\ iterator_ne(it, end(self))
    /\ Assign("*it = bit", deref_ref(self, it), it, b)

(***************************************************************************)
(* Spec: the container under single-bit and byte pushes, pop_back, clear   *)
(* and begin()/end() loops.                                                *)
(***************************************************************************)
BitsPushBit == \E b \in BOOLEAN : Length(self) < MaxBits /\ PushBit(b)

BitsPushByte ==
    \E byte \in SampleBytes :
        Length(self) + sNumOfBitsInByte <= MaxBits /\ PushByte(byte)

Next ==
    \/ BitsPushBit
    \/ BitsPushByte
    \/ PopBack
    \/ Clear
    \/ IterBegin
    \/ IterNext

Spec == Init /\ [][Next]_vars

(***************************************************************************)
(* SpecContract: pop_back() called on any container, the empty one         *)
(* included, in a build with and in a build without NDEBUG.                *)
(***************************************************************************)
InitContract ==
    /\ Constructed
    /\ NDEBUG \in BOOLEAN
    /\ cell = 0

\* the calls of pop_back() that did not return
Halted == lastCall.name \in {"pop_back: assertion failed", "pop_back: crashed"}

\* the program stops inside pop_back(): the container is left as it was
Halt(name) ==
    /\ lastCall' = Call(name, FALSE, << >>, end(self), FALSE, FALSE)
    /\ UNCHANGED << mData, mIncompleteByte, it, itLive, steps, visited,
                    returnValue, pushed, appended, fixed >>

\* what back() and pop_back() of an empty std::vector can leave behind when
\* the call returns: any byte in the tail, no or some bytes in the vector
PopBackUndefined ==
    \E junk \in ByteValues :
       \E rest \in {<< >>} \cup { << byte >> : byte \in SampleBytes } :
          LET c == [mData |-> rest,
                    mIncompleteByte |->
                       [mByte |-> junk, mNumOfBits |-> sNumOfBitsInByte - 1]]
          IN  /\ Mutate(c)
              /\ lastCall' = Call("pop_back", FALSE, << >>, end(self), FALSE, FALSE)
              /\ pushed' = NoPush
              /\ appended' = Logical(c)

\* pop_back(), whatever the container holds
PopBackCall ==
    IF isThereAnIncompleteByte(self)
    THEN PopBack
    ELSE IF ~NDEBUG /\ ~pop_back_assert(self)
    THEN Halt("pop_back: assertion failed")
    ELSE IF mData # << >>
    THEN PopBack
    ELSE Halt("pop_back: crashed") \/ PopBackUndefined

ContractPushBit == ~Halted /\ BitsPushBit

ContractClear == ~Halted /\ Clear

ContractPopBack == ~Halted /\ PopBackCall

NextContract ==
    \/ ContractPushBit
    \/ ContractClear
    \/ ContractPopBack

SpecContract == InitContract /\ [][NextContract]_vars

(***************************************************************************)
(* SpecRef: bits written through bit references, by position and through   *)
(* the caller's iterator.                                                  *)
(***************************************************************************)
\* the calls that write through a bit reference
Assignments == {"getBitRef(byteIndex, bitIndex) = bit", "*it = bit"}

\* a bit is assigned while the byte pushed last is still as it was pushed
RefAssignAt ==
    /\ pushed # NoPush
    /\ \E from \in Positions(self) : \E b \in BOOLEAN : AssignAt(from, b)

RefAssignIt == pushed # NoPush /\ \E b \in BOOLEAN : AssignIt(b)

NextRef ==
    \/ BitsPushBit
    \/ BitsPushByte
    \/ PopBack
    \/ IterBegin
    \/ IterNext
    \/ RefAssignAt
    \/ RefAssignIt

SpecRef == Init /\ [][NextRef]_vars

(***************************************************************************)
(* SpecByte: one byte object, of any value, under byte::set.               *)
(***************************************************************************)
InitByte ==
    /\ Constructed
    /\ NDEBUG = FALSE
    /\ cell \in ByteValues

\* cell.set(index, b): the call records the value of the byte before it
ByteSet(index, b) ==
    /\ cell' = byte_set(cell, index, b)
    /\ lastCall' = Call("byte::set", b, << cell >>, Iterator(0, index), FALSE, FALSE)
    /\ UNCHANGED << mData, mIncompleteByte, it, itLive, steps, visited,
                    returnValue, pushed, appended, NDEBUG >>

NextByte ==
    \E index \in 0..(sNumOfBitsInByte - 1) : \E b \in BOOLEAN : ByteSet(index, b)

SpecByte == InitByte /\ [][NextByte]_vars

(***************************************************************************)
(* SpecTyped: bytes and values pushed behind 0..7 single bits, and their   *)
(* extraction by position and through the caller's iterator.               *)
(***************************************************************************)
TypedPushBit == \E b \in BOOLEAN : Length(self) < MaxPrefix /\ PushBit(b)

TypedPushByte ==
    \E byte \in SampleBytes :
        Len(mData) <= MaxTypedStart /\ PushByte(byte)

TypedPushObject ==
    \E o \in SampleObjects :
        Len(mData) <= MaxTypedStart /\ PushObject(o)

\* the sizes of the types extracted
SampleSizes == { o.size : o \in SampleObjects }

\* extraction by position is followed from the states a push, clear or
\* begin() leaves: it changes nothing that a second extraction reads
TypedExtractAt ==
    /\ lastCall.name \notin
          {"operator++", "extract(it)", "extract(byteIndex, bitIndex)"}
    /\ \E n \in SampleSizes :
          \E from \in ExtractablePositions(self, n) : ExtractAt(n, from)

TypedExtractIt == \E n \in SampleSizes : ExtractIt(n)

NextTyped ==
    \/ TypedPushBit
    \/ TypedPushByte
    \/ TypedPushObject
    \/ Clear
    \/ IterBegin
    \/ IterNext
    \/ TypedExtractAt
    \/ TypedExtractIt

SpecTyped == Init /\ [][NextTyped]_vars

(***************************************************************************)
(* Properties                                                              *)
(***************************************************************************)
\* the caller is inside a begin()/end() loop
InLoop == itLive /\ lastCall.name \in {"begin", "operator++"}

\* the caller's loop has run to its end: it == end()
LoopDone == InLoop /\ iterator_eq(it, end(self))

\* the last call extracted, by position, the byte or value pushed last, from
\* the position that was end() before that push
ExtractedLastPush ==
    /\ lastCall.name = "extract(byteIndex, bitIndex)"
    /\ pushed.data # << >>
    /\ lastCall.from = pushed.at
    /\ Len(returnValue) = Len(pushed.data)

\* C1: push_back(v) followed by extract<T> from the position that was end()
\* before the push returns v, byte for byte, for values of every size and
\* for byte-aligned containers and containers with a partial tail alike.
C1_TypedRoundTrip ==
    ExtractedLastPush => returnValue = pushed.data

\* C2: every extraction through the caller's iterator leaves the iterator 8
\* bit positions further per byte extracted, from a byte-aligned position
\* and from any other.
C2_CursorAdvances ==
    lastCall.name = "extract(it)" =>
        Linear(it) = Linear(lastCall.from) + sNumOfBitsInByte * Len(returnValue)

\* C3: between operations the tail count is in 0..7, and the number of bits
\* pushed and not popped since the last clear is 8 * (full bytes) + tail
\* count.
C3_TailAccounting ==
    /\ mIncompleteByte.mNumOfBits \in 0..(sNumOfBitsInByte - 1)
    /\ Len(appended) = sNumOfBitsInByte * Len(mData) + mIncompleteByte.mNumOfBits

\* C3 witness: a ninth bit was pushed after the tail had collapsed into a
\* full byte, and the tail was popped empty again.
C3_Witness ==
    /\ lastCall.name = "pop_back"
    /\ Len(mData) = 1
    /\ mIncompleteByte.mNumOfBits = 0
    /\ Len(appended) = 8

\* C4: a loop from begin() to end() reads exactly the bits pushed, in order,
\* in as many rounds as bits were pushed; a container of 3 bits has an
\* incomplete byte.
C4_BitRoundTrip ==
    /\ LoopDone => (visited = appended /\ steps = Len(appended))
    /\ Len(appended) = 3 => isThereAnIncompleteByte(self)

\* C4 witness: true, false, true were pushed and the loop has read them.
C4_Witness ==
    /\ LoopDone
    /\ appended = << TRUE, FALSE, TRUE >>
    /\ visited = << TRUE, FALSE, TRUE >>
    /\ steps = 3
    /\ isThereAnIncompleteByte(self)

\* the last bit the container holds (the container is not empty)
LastBit(c) ==
    get(c, (Length(c) - 1) \div sNumOfBitsInByte,
           (Length(c) - 1) % sNumOfBitsInByte)

\* C5: on every container that is not empty, pop_back() followed by
\* push_back of the bit that was last restores the bits read through get,
\* the full bytes and the tail count; and whenever the calls were made in
\* this order the container reads as the bits pushed and not popped.
C5_PopPushInverse ==
    /\ Length(self) > 0 =>
          LET restored == push_back_bit(pop_back(self), LastBit(self))
          IN  /\ Logical(restored) = Logical(self)
              /\ restored.mData = self.mData
              /\ restored.mIncompleteByte.mNumOfBits = mIncompleteByte.mNumOfBits
    /\ (lastCall.name = "push_back(bit)" /\ lastCall.undoes) =>
          /\ Logical(self) = appended
          /\ LastBit(self) = lastCall.bit

\* C5 witness: the pop moved the last full byte into the tail and the push
\* of the popped bit completed that byte again.
C5_Witness ==
    /\ lastCall.name = "push_back(bit)"
    /\ lastCall.undoes
    /\ Len(mData) = 1
    /\ mIncompleteByte.mNumOfBits = 0

\* C6: a pop_back with tail count k > 0 leaves tail count k - 1 and the full
\* bytes unchanged; with tail count 0 it moves the last full byte into the
\* tail, leaves tail count 7 and one full byte fewer, the others unchanged.
\* Popping twice from 9 bits leaves no full byte and tail count 7.
C6_PopBackOutcomes ==
    [][lastCall'.name = "pop_back" =>
          /\ IF mIncompleteByte.mNumOfBits > 0
             THEN /\ mIncompleteByte'.mNumOfBits = mIncompleteByte.mNumOfBits - 1
                  /\ mData' = mData
             ELSE /\ Len(mData) >= 1
                  /\ mIncompleteByte'.mByte = mData[Len(mData)]
                  /\ mIncompleteByte'.mNumOfBits = 7
                  /\ mData' = SubSeq(mData, 1, Len(mData) - 1)
          /\ (Len(appended) = 8 /\ lastCall.name = "pop_back") =>
                (mData' = << >> /\ mIncompleteByte'.mNumOfBits = 7)
      ]_vars

\* C6 witness: of 9 bits pushed, two pop_back calls have left 7 in the tail,
\* whose eighth bit still holds the 1 that was popped.
C6_Witness ==
    /\ lastCall.name = "pop_back"
    /\ Len(appended) = 7
    /\ mData = << >>
    /\ mIncompleteByte.mNumOfBits = 7
    /\ mIncompleteByte.mByte % 2 = 1

\* the container with the unused bits of its incomplete byte taken from junk
WithStaleBits(c, junk) ==
    LET used  == c.mIncompleteByte.mNumOfBits
        keep  == Pow2(sNumOfBitsInByte - used)
    IN  [c EXCEPT !.mIncompleteByte.mByte = ((@ \div keep) * keep) + (junk % keep)]

\* C7: the assertion of get / getBitRef accepts a position exactly when it
\* is below the number of bits held; every position a begin()/end() loop
\* dereferences passes it; and what get and the loop return is the same
\* whatever the unused bits of the incomplete byte are.
C7_StaleBitsNeverRead ==
    /\ \A byteIndex \in 0..(Len(mData) + 1) :
          \A bitIndex \in 0..(sNumOfBitsInByte - 1) :
             InRange(self, byteIndex, bitIndex)
                <=> sNumOfBitsInByte * byteIndex + bitIndex < Len(appended)
    /\ (InLoop /\ iterator_ne(it, end(self))) =>
          InRange(self, it.mByteIndex, it.mBitIndex)
    /\ \A junk \in {0, 255} :
          Logical(WithStaleBits(self, junk)) = Logical(self)
    /\ InLoop => visited = SubSeq(appended, 1, Len(visited))

\* C7 witness: a loop has reached the incomplete byte, whose unused part
\* holds a bit that pop_back left set.
C7_Witness ==
    /\ InLoop
    /\ lastCall.name = "operator++"
    /\ it.mByteIndex = Len(mData)
    /\ mIncompleteByte.mNumOfBits \in 1..6
    /\ \E bitIndex \in mIncompleteByte.mNumOfBits..7 :
          byte_get(mIncompleteByte.mByte, bitIndex)

\* C8: the byte extracted at the position where a byte was pushed is that
\* byte, whether the position is byte-aligned (mData[mByteIndex] is returned)
\* or not (the byte is put together from 8 bits): behind 0..7 bits pushed
\* one by one, for every byte value.
C8_AlignmentEquivalence ==
    /\ (ExtractedLastPush /\ Len(pushed.data) = 1) => returnValue = pushed.data
    /\ (mData = << >> /\ lastCall.name \in {"dynamic_bitset", "push_back(bit)"}) =>
          \A byte \in ByteValues :
             LET c == push_back_byte(self, byte)
             IN  /\ getByte(c, end(self)).byte = byte
                 /\ getByte(c, end(self)).byte
                        = getByte(push_back_byte(EmptyBitset, byte), begin).byte

\* C8 witness: a byte pushed behind 7 bits was extracted from (0, 7).
C8_Witness ==
    /\ ExtractedLastPush
    /\ Len(pushed.data) = 1
    /\ pushed.at = Iterator(0, 7)
    /\ returnValue = << 180 >>

\* C9: push_back(byte) appends the 8 bits of the byte, most-significant
\* first, behind the bits held, which stay as they were; the tail count is
\* the same as before and there is one more full byte, which is the byte
\* pushed when the container was byte-aligned.  push_back(value) does so for
\* each byte of the value in memory order.
C9_PushByteAppends ==
    lastCall.name \in {"push_back(byte)", "push_back(value)"} =>
        LET before == Linear(lastCall.from)
            count  == Len(lastCall.data)
        IN  /\ Length(self) = before + sNumOfBitsInByte * count
            /\ Len(mData) = lastCall.from.mByteIndex + count
            /\ mIncompleteByte.mNumOfBits = lastCall.from.mBitIndex
            /\ SubSeq(Logical(self), 1, before) = SubSeq(appended, 1, before)
            /\ \A i \in 1..count :
                  /\ \A bitIndex \in 0..(sNumOfBitsInByte - 1) :
                        Logical(self)[before + sNumOfBitsInByte * (i - 1) + bitIndex + 1]
                           = ((lastCall.data[i] \div Pow2(7 - bitIndex)) % 2 = 1)
                  /\ lastCall.from.mBitIndex = 0 =>
                        mData[lastCall.from.mByteIndex + i] = lastCall.data[i]

\* C9 witness: the byte 180 = 10110100b was pushed behind 3 bits.
C9_Witness ==
    /\ lastCall.name = "push_back(byte)"
    /\ lastCall.data = << 180 >>
    /\ lastCall.from = Iterator(0, 3)
    /\ SubSeq(Logical(self), 4, 11)
          = << TRUE, FALSE, TRUE, TRUE, FALSE, TRUE, FALSE, FALSE >>

\* C10: end() is (number of full bytes, tail count) and begin() is (0, 0);
\* an iterator started at begin() equals end() after exactly
\* 8 * (full bytes) + tail count increments and not before; for the empty
\* container begin() equals end().
C10_LoopReachesEnd ==
    /\ end(self) = Iterator(Len(mData), mIncompleteByte.mNumOfBits)
    /\ begin = Iterator(0, 0)
    /\ InLoop =>
          /\ steps <= Length(self)
          /\ Linear(it) = steps
          /\ it.mBitIndex \in 0..(sNumOfBitsInByte - 1)
          /\ iterator_eq(it, end(self)) <=> steps = Length(self)
          /\ iterator_ne(it, end(self)) <=> steps < Length(self)
    /\ (mData = << >> /\ mIncompleteByte.mNumOfBits = 0) =>
          iterator_eq(begin, end(self))

\* C10 witness: a loop over one full byte and one tail bit has reached end().
C10_Witness ==
    /\ LoopDone
    /\ steps = 9
    /\ it = Iterator(1, 1)

\* the calls replayed after clear(): single-bit pushes, a byte push, pop_back
SampleCalls ==
    { [name |-> "push_back(bit)", bit |-> b, byte |-> 0] : b \in BOOLEAN }
       \cup { [name |-> "push_back(byte)", bit |-> FALSE, byte |-> 180],
              [name |-> "pop_back", bit |-> FALSE, byte |-> 0] }

\* one call on container c; pop_back is only called on a non-empty container
Apply(c, call) ==
    CASE call.name = "push_back(bit)" -> push_back_bit(c, call.bit)
      [] call.name = "push_back(byte)" -> push_back_byte(c, call.byte)
      [] call.name = "pop_back" -> IF Length(c) > 0 THEN pop_back(c) ELSE c

\* calls[n..] on container c
RECURSIVE Replay(_, _, _)
Replay(c, calls, n) ==
    IF Evaluated(c) /\ n <= Len(calls)
    THEN Replay(Apply(c, calls[n]), calls, n + 1)
    ELSE c

\* what a caller can observe of a container: every bit get returns, end(),
\* whether begin() equals end()
Observed(c) ==
    [bits |-> Logical(c), end |-> end(c), empty |-> iterator_eq(begin, end(c))]

\* C11: clear() leaves no full bytes, tail count 0 and begin() = end(), and
\* the cleared container, whatever bits its tail byte still stores, shows
\* after every sequence of push_back and pop_back calls what a newly
\* constructed container shows after the same calls.
C11_ClearIsFresh ==
    lastCall.name = "clear" =>
        /\ mData = << >>
        /\ mIncompleteByte.mNumOfBits = 0
        /\ iterator_eq(begin, end(self))
        /\ \A k \in 0..MaxCalls :
              \A calls \in [1..k -> SampleCalls] :
                 Observed(Replay(self, calls, 1))
                    = Observed(Replay(EmptyBitset, calls, 1))

\* C11 witness: clear() was called on a container whose tail byte stores
\* 1 bits, and they are still stored.
C11_Witness ==
    /\ lastCall.name = "clear"
    /\ mIncompleteByte.mByte = 255
    /\ Observed(self) = Observed(EmptyBitset)

\* a step that is a call of pop_back() on the empty container
EmptyPop ==
    /\ Length(self) = 0
    /\ lastCall'.name \in {"pop_back", "pop_back: assertion failed",
                           "pop_back: crashed"}

\* C12 as stated: pop_back() on the empty container always stops at the
\* failing assert(!mData.empty()), with the full bytes, the tail byte and
\* the tail count as they were.
C12_EmptyPopDetected ==
    [][EmptyPop =>
          /\ lastCall'.name = "pop_back: assertion failed"
          /\ UNCHANGED << mData, mIncompleteByte >>]_vars

\* C12: in a build that does not define NDEBUG, pop_back() on the empty
\* container stops at the failing assert(!mData.empty()) before anything is
\* written: no byte is popped off the empty vector and the tail count stays
\* 0. (With NDEBUG the assertion is compiled out and the call is undefined.)
C12_EmptyPopAsserted ==
    [][(EmptyPop /\ ~NDEBUG) =>
          /\ lastCall'.name = "pop_back: assertion failed"
          /\ UNCHANGED << mData, mIncompleteByte >>
          /\ mIncompleteByte'.mNumOfBits = 0
          /\ mData' = << >>]_vars

\* C12 witness: the assertion has stopped a pop_back() on a container that
\* was filled and emptied again.
C12_Witness ==
    /\ lastCall.name = "pop_back: assertion failed"
    /\ ~NDEBUG
    /\ Length(self) = 0
    /\ mIncompleteByte.mByte = 255

\* C13: assigning b through the bit reference of an in-range position p,
\* got from getBitRef(byteIndex, bitIndex) or from *it, makes get(p) and
\* every bit reference for p read b, and leaves every other bit, the number
\* of full bytes and the tail count as they were, for p in a full byte and
\* for p in the tail.
C13_WriteThrough ==
    /\ \A p \in Positions(self) : \A b \in BOOLEAN :
          LET ref == getBitRef(self, p.mByteIndex, p.mBitIndex)
              c == bit_ref_assign(self, ref, b)
          IN  /\ get(c, p.mByteIndex, p.mBitIndex) = b
              /\ bit_ref_get(c, ref) = b
              /\ bit_ref_get(c, deref_ref(c, p)) = b
              /\ \A q \in Positions(self) \ {p} :
                    get(c, q.mByteIndex, q.mBitIndex)
                       = get(self, q.mByteIndex, q.mBitIndex)
              /\ Len(c.mData) = Len(mData)
              /\ c.mIncompleteByte.mNumOfBits = mIncompleteByte.mNumOfBits
    /\ lastCall.name \in Assignments =>
          /\ deref(self, lastCall.from) = lastCall.bit
          /\ bit_ref_get(self, deref_ref(self, lastCall.from)) = lastCall.bit
          /\ Logical(self) = appended

\* C13 witness: behind one single bit the byte 0xB4 was pushed; the caller's
\* loop reached the last bit, which is in the tail, and assigned 1 to it.
C13_Witness ==
    /\ lastCall.name = "*it = bit"
    /\ lastCall.from = Iterator(1, 0)
    /\ lastCall.bit = TRUE
    /\ it = Iterator(1, 0)
    /\ Len(mData) = 1
    /\ mIncompleteByte.mNumOfBits = 1
    /\ Logical(self)
          = << TRUE, TRUE, FALSE, TRUE, TRUE, FALSE, TRUE, FALSE, TRUE >>

\* C14: extract<T>(byteIndex, bitIndex) and extract(destination, count,
\* byteIndex, bitIndex) leave the full bytes, the tail byte and the tail
\* count, and so every bit get returns, as they were, and do not move the
\* iterator the caller holds.
C14_ExtractAtReadsOnly ==
    [][lastCall'.name = "extract(byteIndex, bitIndex)" =>
          /\ UNCHANGED << mData, mIncompleteByte >>
          /\ Logical(self)' = Logical(self)
          /\ UNCHANGED << it, itLive, steps >>]_vars

\* C14 witness: the caller holds begin() of a container with three single
\* bits and the byte 0xB4, and has extracted that byte from position (0, 3).
C14_Witness ==
    /\ lastCall.name = "extract(byteIndex, bitIndex)"
    /\ lastCall.from = Iterator(0, 3)
    /\ returnValue = << 180 >>
    /\ itLive
    /\ it = begin
    /\ Length(self) = 11

\* C15: for every byte value d, index i in 0..7 and bit b, after set(i, b)
\* get(i) returns b, get(j) is unchanged for every j # i, the value is
\* still in 0..255 and is d with only the bit of weight 2^(7 - i) replaced
\* by b; setting a bit to the value it has leaves the byte unchanged.
C15_ByteSetGet ==
    lastCall.name = "byte::set" =>
        LET d == lastCall.data[1]
            i == lastCall.from.mBitIndex
            b == lastCall.bit
            weight == 2^(7 - i)
            had == (d \div weight) % 2
        IN  /\ byte_get(cell, i) = b
            /\ \A j \in (0..7) \ {i} : byte_get(cell, j) = byte_get(d, j)
            /\ cell \in 0..255
            /\ cell + had * weight = d + BitValue(b) * weight
            /\ (byte_get(d, i) = b) => cell = d

\* C15 witness: set(0, 1) on a byte whose most-significant bit was already 1
\* and whose other bits are mixed.
C15_Witness ==
    /\ lastCall.name = "byte::set"
    /\ lastCall.data = << 180 >>
    /\ lastCall.from = Iterator(0, 0)
    /\ lastCall.bit = TRUE
    /\ cell = 180

\* C16: with S the sequence of the bits get returns, S[8 * byteIndex +
\* bitIndex] = get(byteIndex, bitIndex), a new container has S empty and
\* every call moves S as the abstract sequence moves: push_back(b) appends
\* b and keeps the bits before it, push_back(byte) appends its eight bits,
\* pop_back() removes the last bit, clear() empties S, and begin() and ++
\* leave S alone; so a bit pushed after pops across a byte boundary is the
\* bit read back.
C16_SequenceRefinement ==
    [][LET S == Logical(self)
           T == Logical(self)'
       IN  CASE lastCall'.name = "push_back(bit)" ->
                  T = Append(S, lastCall'.bit)
             [] lastCall'.name = "push_back(byte)" ->
                  T = S \o MsbFirst(lastCall'.data[1])
             [] lastCall'.name = "pop_back" ->
                  Len(S) > 0 /\ T = SubSeq(S, 1, Len(S) - 1)
             [] lastCall'.name = "clear" ->
                  T = << >>
             [] OTHER ->
                  T = S
      ]_vars

\* C16 witness: the byte 0xB4 was pushed, pop_back() moved it into the tail
\* and removed its last bit 0, and push_back(1) completed the byte again:
\* the eighth bit reads 1.
C16_Witness ==
    /\ lastCall.name = "push_back(bit)"
    /\ lastCall.replaces
    /\ lastCall.bit = TRUE
    /\ lastCall.from = Iterator(0, 7)
    /\ mData = << 181 >>
    /\ mIncompleteByte.mNumOfBits = 0
    /\ Logical(self)
          = << TRUE, FALSE, TRUE, TRUE, FALSE, TRUE, FALSE, TRUE >>

\* C17: an iterator incremented any number of times from begin() has its
\* bit index in 0..7; one increment raises 8 * byteIndex + bitIndex by
\* exactly 1; operator== holds exactly when both indices are equal and
\* operator!= when it does not; operator< orders iterators as their linear
\* positions, so an iterator is less than its successor.
C17_CursorOrder ==
    InLoop =>
        LET next == increment(it)
            others == Positions(self) \cup {end(self), it, next}
        IN  /\ it.mBitIndex \in 0..7
            /\ next.mBitIndex \in 0..7
            /\ Linear(next) = Linear(it) + 1
            /\ iterator_lt(it, next)
            /\ ~iterator_lt(next, it)
            /\ \A a \in others :
                  /\ iterator_eq(it, a) <=> (it = a)
                  /\ iterator_eq(it, a) <=> (Linear(it) = Linear(a))
                  /\ iterator_ne(it, a) <=> ~iterator_eq(it, a)
                  /\ iterator_lt(it, a) <=> (Linear(it) < Linear(a))
                  /\ iterator_lt(a, it) <=> (Linear(a) < Linear(it))

\* C17 witness: the eighth increment took the iterator from (0, 7) to
\* (1, 0), in a container that has a ninth bit.
C17_Witness ==
    /\ InLoop
    /\ steps = 8
    /\ it = Iterator(1, 0)
    /\ lastCall.from = Iterator(0, 7)
    /\ iterator_lt(lastCall.from, it)
    /\ iterator_lt(it, end(self))

\* the calls that extract bytes
Extractions == {"extract(byteIndex, bitIndex)", "extract(it)"}

\* C18: in every reachable state, at every byte-aligned position p with
\* p + 8 <= the number of bits held, getByte's assertion holds: the byte
\* index is below mData.size(), so the byte-aligned path reads a full byte
\* of mData and never the incomplete byte; and every extraction made from a
\* byte-aligned position started where the assertion holds.
C18_FastPathInBounds ==
    /\ \A p \in ExtractablePositions(self, 1) :
          p.mBitIndex = 0 =>
             /\ getByte_assert(self, p)
             /\ (p.mByteIndex + 1) \in DOMAIN mData
             /\ ~iterator_eq(p, Iterator(Len(mData), 0))
             /\ getByte(self, p).byte = mData[p.mByteIndex + 1]
    /\ (lastCall.name \in Extractions /\ lastCall.from.mBitIndex = 0) =>
          getByte_assert(self, lastCall.from)

\* C18 witness: the value 0x12345678 was pushed on the empty container and
\* its second byte was extracted from the byte-aligned position (1, 0).
C18_Witness ==
    /\ lastCall.name = "extract(byteIndex, bitIndex)"
    /\ lastCall.from = Iterator(1, 0)
    /\ Len(mData) = 4
    /\ mIncompleteByte.mNumOfBits = 0
    /\ returnValue = << 86 >>

=============================================================================
